---- MODULE Spec2Model ----
(***************************************************************************)
(* debtoapg: conversion of a Debian package into an APG archive            *)
(* (src/src/main.py).  One Job is one run of main(): argument handling,    *)
(* DebToApgConverter.convert and the mapping of its outcome to an exit     *)
(* code.  The staging tree, the external tool dpkg-deb and the output      *)
(* file are modelled as far as the code reads or writes them.              *)
(***************************************************************************)
EXTENDS Integers, Sequences, FiniteSets, TLC

(***************************************************************************)
(* Bounds of the model.                                                    *)
(***************************************************************************)
\* deepest payload path (components below the package root)
MaxDepth == 2
\* payload file contents are the byte strings 0..MaxContent
MaxContent == 1
\* longest control-file content, in bytes
MaxTextLen == 2

Jobs == {1, 2}
TempNames == {"tmpA", "tmpB"}

(***************************************************************************)
(* Filesystem nodes.  A directory maps entry names to nodes.  A symlink    *)
(* is classified by what its target resolves to during the checksum pass:  *)
(* a regular file (content = the target's bytes), a directory, or nothing. *)
(***************************************************************************)
NoEntries == [n \in {} |-> 0]
File(c) == [kind |-> "file", content |-> c, children |-> NoEntries]
Dir(ch) == [kind |-> "dir", content |-> 0, children |-> ch]
LinkFile(c) == [kind |-> "linkfile", content |-> c, children |-> NoEntries]
LinkDir == [kind |-> "linkdir", content |-> 0, children |-> NoEntries]
LinkBroken == [kind |-> "linkbroken", content |-> 0, children |-> NoEntries]

Contents == 0..MaxContent
ChildNames == {"x"}
TopNames == {"usr", "apg"}

Leaves == {File(c) : c \in Contents} \cup {LinkFile(c) : c \in Contents} \cup {LinkDir, LinkBroken}

\* the set of functions from a subset of names to members of nodes
Dirs(names, nodes) == UNION {[S -> nodes] : S \in SUBSET names}

\* payload nodes whose deepest path has at most d components
RECURSIVE Nodes(_)
Nodes(d) ==
  IF d <= 1 THEN Leaves \cup {Dir(NoEntries)}
  ELSE Leaves \cup {Dir(ch) : ch \in Dirs(ChildNames, Nodes(d - 1))}

Payloads == Dirs(TopNames, Nodes(MaxDepth))

(***************************************************************************)
(* Control files: raw bytes on disk.  CR and LF are the line-ending bytes, *)
(* BAD a byte that is not valid in the default text encoding.              *)
(***************************************************************************)
ByteChars == {"a", "CR", "LF", "BAD"}
RECURSIVE SeqsUpTo(_, _)
SeqsUpTo(S, n) ==
  IF n = 0 THEN {<<>>}
  ELSE LET shorter == SeqsUpTo(S, n - 1)
       IN  shorter \cup {Append(s, c) : s \in {t \in shorter : Len(t) = n - 1}, c \in S}
Texts == SeqsUpTo(ByteChars, MaxTextLen)

\* main.py:107
control_files == <<"control", "preinst", "postinst", "prerm", "postrm", "triggers", "conffiles">>
ControlNames == {control_files[i] : i \in DOMAIN control_files}

(***************************************************************************)
(* Path helpers: a path is the sequence of its components.                 *)
(***************************************************************************)
RECURSIVE NodeAt(_, _)
NodeAt(node, p) == IF p = <<>> THEN node ELSE NodeAt(node.children[Head(p)], Tail(p))

\* every path of the tree below node, <<>> for node itself; a symlink to a
\* directory is an entry, never descended into
RECURSIVE TreePaths(_)
TreePaths(node) ==
  {<<>>} \cup
  (IF node.kind = "dir"
   THEN UNION {{<<n>> \o p : p \in TreePaths(node.children[n])} : n \in DOMAIN node.children}
   ELSE {})


Put(ch, name, node) == [n \in DOMAIN ch \cup {name} |-> IF n = name THEN node ELSE ch[n]]
Without(ch, names) == [n \in DOMAIN ch \ names |-> ch[n]]

(***************************************************************************)
(* The package an input file holds, and what `dpkg-deb -R` makes of it:    *)
(* the control files under DEBIAN, the payload entries beside it.          *)
(***************************************************************************)
\* names a control directory may hold: the seven the converter reads and one it does not
ControlDirNames == ControlNames \cup {"md5sums"}

ExtractedTree(control, payload) ==
  Dir(Put(payload, "DEBIAN", Dir([n \in DOMAIN control |-> File(control[n])])))

(***************************************************************************)
(* open(path, 'r').read() (main.py:111-112): the bytes decoded in text     *)
(* mode.  Universal newlines turn CR LF and a lone CR into LF; a byte      *)
(* that does not decode raises UnicodeDecodeError.                         *)
(***************************************************************************)
RECURSIVE TextRead(_)
TextRead(bytes) ==
  IF bytes = <<>> THEN <<>>
  ELSE IF Head(bytes) = "CR"
       THEN IF Len(bytes) > 1 /\ bytes[2] = "LF"
            THEN <<"LF">> \o TextRead(SubSeq(bytes, 3, Len(bytes)))
            ELSE <<"LF">> \o TextRead(Tail(bytes))
       ELSE <<Head(bytes)>> \o TextRead(Tail(bytes))

Decodes(bytes) == \A i \in DOMAIN bytes : bytes[i] # "BAD"

(***************************************************************************)
(* generate_metadata (main.py:98-113), on the staging root.                *)
(***************************************************************************)
StampFields == {"created", "converter_version", "converter", "author"}
Stamp ==
  [created |-> <<"utcnow">>, converter_version |-> <<"1.0.0">>,
   converter |-> <<"debtoapg">>, author |-> <<"AnmiTaliDev">>]

\* os.path.exists(os.path.join(debian_dir, file))
ControlFileExists(root, file) ==
  /\ "DEBIAN" \in DOMAIN root.children
  /\ file \in DOMAIN root.children["DEBIAN"].children

ControlBytes(root, file) == root.children["DEBIAN"].children[file].content

\* the loop of main.py:108-112 over control_files[i..], metadata being the dict so far
RECURSIVE MetadataLoop(_, _, _)
MetadataLoop(root, metadata, i) ==
  IF i > Len(control_files) THEN metadata
  ELSE LET file == control_files[i]
       IN  IF ControlFileExists(root, file)
           THEN MetadataLoop(root, Put(metadata, file, TextRead(ControlBytes(root, file))), i + 1)
           ELSE MetadataLoop(root, metadata, i + 1)

generate_metadata(root) == MetadataLoop(root, Stamp, 1)

\* f.read() raises for the first control file that is present and does not decode
generate_metadata_raises(root) ==
  \E i \in DOMAIN control_files :
    /\ ControlFileExists(root, control_files[i])
    /\ ~Decodes(ControlBytes(root, control_files[i]))

(***************************************************************************)
(* calculate_checksums (main.py:115-124).  os.walk lists as a file every   *)
(* entry that is not a directory and not a symlink to one, and descends    *)
(* into real directories only; open() follows symlinks.                    *)
(***************************************************************************)
Sha256(bytes) == <<"sha256", bytes>>

\* a faulty variant: os.listdir in place of os.walk, the subdirectories never visited
WalkTopLevel(node) ==
  {<<n>> : n \in {m \in DOMAIN node.children : node.children[m].kind \notin {"dir", "linkdir"}}}

RECURSIVE WalkFiles(_)
WalkFiles(node) ==
  UNION {
    LET child == node.children[n]
    IN  IF child.kind = "dir" THEN {<<n>> \o p : p \in WalkFiles(child)}
        ELSE IF child.kind = "linkdir" THEN {}
        ELSE {<<n>>}
    : n \in DOMAIN node.children}

\* a faulty variant: the digest taken of a file object already read to its end
checksums_of_nothing(directory) ==
  [p \in WalkFiles(directory) |-> Sha256(0)]

calculate_checksums(directory) ==
  [p \in WalkFiles(directory) |-> Sha256(NodeAt(directory, p).content)]

\* open(file_path, 'rb') on a symlink whose target does not resolve
calculate_checksums_raises(directory) ==
  \E p \in WalkFiles(directory) : NodeAt(directory, p).kind = "linkbroken"

(***************************************************************************)
(* create_apg (main.py:126-148), step by step on the staging root.         *)
(***************************************************************************)
\* os.makedirs(apg_root) raises FileExistsError when the entry exists
makedirs_raises(root) == "apg" \in DOMAIN root.children

\* main.py:129-130
makedirs(root) == Dir(Put(root.children, "apg", Dir(Put(NoEntries, "data", Dir(NoEntries)))))

\* a faulty variant: the test for DEBIAN left out of the loop's condition
MovedItemsWithControl(root) == {item \in DOMAIN root.children : item # "apg"}

\* main.py:134-138: every listed entry but DEBIAN and apg is moved into apg/data
MovedItems(root) == {item \in DOMAIN root.children : item # "DEBIAN" /\ item # "apg"}

move_items(root) ==
  LET ch == root.children
      apg == ch["apg"]
      data == apg.children["data"]
      moved == MovedItems(root)
      data2 == Dir([n \in DOMAIN data.children \cup moved |->
                      IF n \in moved THEN ch[n] ELSE data.children[n]])
  IN  Dir(Put(Without(ch, moved), "apg", Dir(Put(apg.children, "data", data2))))

ApgRoot(root) == root.children["apg"]
DataDir(root) == ApgRoot(root).children["data"]

\* a file written at the archive root (open(..., 'w') then json.dump)
WriteApgFile(root, name, content) ==
  Dir(Put(root.children, "apg", Dir(Put(ApgRoot(root).children, name, File(content)))))

(***************************************************************************)
(* tar.add(apg_root, arcname='') (main.py:147-148): one member per entry   *)
(* of the tree, named by arcname joined with the path below apg_root.  A   *)
(* regular file is stored with its bytes, a symlink as a link.             *)
(***************************************************************************)
TarMember(node) ==
  [type |-> node.kind, data |-> IF node.kind = "file" THEN node.content ELSE 0]

TarAdd(node, arcname) ==
  [m \in {arcname \o p : p \in TreePaths(node)} |->
     TarMember(NodeAt(node, SubSeq(m, Len(arcname) + 1, Len(m))))]

create_archive(root) == TarAdd(ApgRoot(root), <<>>)


(***************************************************************************)
(* The environment one Job runs in: its command line, the input file and   *)
(* how dpkg-deb answers for it, the package it holds, the output path.     *)
(***************************************************************************)
Stderrs == {"dpkg-deb: error: not a Debian format archive", "dpkg-deb: error: unexpected end of file"}

\* the bytes of a control file that carries no line ending: one opaque byte per name
PlainText(n) == <<n>>

BaseEnv ==
  [version |-> FALSE, hasInput |-> TRUE, hasOutput |-> TRUE, verbose |-> FALSE,
   exists |-> TRUE, isDeb |-> TRUE, infoOk |-> TRUE, contentsOk |-> TRUE,
   extractOk |-> TRUE, stderr |-> "", outWritable |-> TRUE, outBefore |-> "absent",
   control |-> [n \in {"control"} |-> PlainText(n)],
   payload |-> [n \in {"usr"} |-> Dir([c \in {"x"} |-> File(0)])]]

\* command lines (argparse, main.py:174-179)
ArgEnvs ==
  {[BaseEnv EXCEPT !.version = v, !.hasInput = i, !.hasOutput = o, !.verbose = vb] :
     v \in BOOLEAN, i \in BOOLEAN, o \in BOOLEAN, vb \in BOOLEAN}

\* input files and the tool's answers to the three invocations
ToolEnvs ==
  {[BaseEnv EXCEPT !.exists = e, !.isDeb = d, !.infoOk = io, !.contentsOk = co,
                   !.extractOk = xo, !.stderr = IF io /\ co /\ xo THEN "" ELSE err,
                   !.verbose = vb] :
     e \in BOOLEAN, d \in BOOLEAN, io \in BOOLEAN, co \in BOOLEAN, xo \in BOOLEAN,
     err \in Stderrs, vb \in BOOLEAN}

\* payload trees, and output paths that can or cannot be opened for writing
PayloadEnvs ==
  {[BaseEnv EXCEPT !.payload = p, !.outWritable = w, !.outBefore = b] :
     p \in Payloads, w \in BOOLEAN, b \in {"absent", "old"}}

\* control directories: any set of names, and any bytes in one file
Controls ==
  {[n \in S |-> PlainText(n)] : S \in SUBSET ControlDirNames}
  \cup {[n \in {f} |-> t] : f \in ControlDirNames, t \in Texts}

ControlEnvs == {[BaseEnv EXCEPT !.control = c] : c \in Controls}

JobEnvs == ArgEnvs \cup ToolEnvs \cup PayloadEnvs \cup ControlEnvs

(***************************************************************************)
(* State.                                                                  *)
(***************************************************************************)
VARIABLES
  env,          \* env[j]: the environment of Job j (never changes)
  pc,           \* pc[j]: the statement Job j executes next
  temp_dir,     \* self.temp_dir: "None" or the name of the staging directory
  current_step, \* self.current_step
  exc,          \* the exception in flight in Job j
  ret,          \* what main returned, -1 while it runs
  printed,      \* what Job j printed, in order
  tool,         \* the dpkg-deb invocations of Job j, in order
  fs,           \* the temporary directories on disk: name -> tree
  outfile       \* the file at Job j's output path

vars == <<env, pc, temp_dir, current_step, exc, ret, printed, tool, fs, outfile>>

\* a faulty variant: the stages that report progress miscounted
total_steps_miscounted == 4 - 1

\* main.py:26
total_steps == 4

\* update_progress (main.py:51): the percentage it reports at step n
Percentage(n) == (n * 100) \div total_steps

NoExc == [type |-> "None", text |-> "", diag |-> ""]
Exc(type, text, diag) == [type |-> type, text |-> text, diag |-> diag]

NoFile == [state |-> "absent", members |-> NoEntries]
OldFile == [state |-> "old", members |-> NoEntries]

\* log (main.py:57-73): printed when verbose or when the level is error, success or warning
log(out, verbose, level, text, detail) ==
  IF verbose \/ level \in {"error", "success", "warning"}
  THEN Append(out, [via |-> "log", level |-> level, text |-> text, detail |-> detail])
  ELSE out

\* a bare print()
print(out, text, detail) ==
  Append(out, [via |-> "print", level |-> "", text |-> text, detail |-> detail])

\* update_progress (main.py:49-55): the progress line it prints
progress(out, text) ==
  Append(out, [via |-> "progress", level |-> "", text |-> text, detail |-> <<>>])

\* cleanup (main.py:150-152)
cleanup(disk, dir) ==
  IF dir # "None" /\ dir \in DOMAIN disk THEN Without(disk, {dir}) ELSE disk

\* the state before any started Job has run a statement: fresh converters
\* (main.py:22-27), no temporary directory on disk; the other Jobs never start
InitWith(envs, started) ==
  /\ env = envs
  /\ pc = [j \in Jobs |-> IF j \in started THEN "main" ELSE "off"]
  /\ outfile = [j \in Jobs |-> IF j \in started /\ envs[j].outBefore = "old" THEN OldFile ELSE NoFile]
  /\ temp_dir = [j \in Jobs |-> "None"]
  /\ current_step = [j \in Jobs |-> 0]
  /\ exc = [j \in Jobs |-> NoExc]
  /\ ret = [j \in Jobs |-> -1]
  /\ printed = [j \in Jobs |-> <<>>]
  /\ tool = [j \in Jobs |-> <<>>]
  /\ fs = NoEntries

\* one Job, in any environment
Init == \E e \in JobEnvs : InitWith([j \in Jobs |-> IF j = 1 THEN e ELSE BaseEnv], {1})

(***************************************************************************)
(* Control transfer.                                                       *)
(***************************************************************************)
\* control of Job j moves to statement next
Goto(j, next) == pc' = [pc EXCEPT ![j] = next]

\* the statement that follows statement s when s completes normally: the
\* straight-line order of convert's try block (main.py:158-162) and of the
\* functions it calls
After(s) ==
  CASE s = "validate_deb" -> "dpkg_info"
    [] s = "dpkg_info" -> "dpkg_contents"
    [] s = "dpkg_contents" -> "extract_deb"
    [] s = "extract_deb" -> "dpkg_extract"
    [] s = "dpkg_extract" -> "create_apg"
    [] s = "create_apg" -> "move"
    [] s = "move" -> "open_metadata"
    [] s = "open_metadata" -> "generate_metadata"
    [] s = "generate_metadata" -> "open_checksums"
    [] s = "open_checksums" -> "calculate_checksums"
    [] s = "calculate_checksums" -> "tar_open"
    [] s = "tar_open" -> "tar_add"
    [] s = "tar_add" -> "getsize"
    [] s = "getsize" -> "finally"

Continue(j) == Goto(j, After(pc[j]))

\* a faulty variant: a stage that catches its own error and lets the pipeline go on
RaiseAndContinue(j, e) ==
  /\ exc' = [exc EXCEPT ![j] = e]
  /\ Continue(j)

\* an exception of class Exception is raised inside convert's try block: the
\* handler of main.py:163 takes it
Raise(j, e) ==
  /\ exc' = [exc EXCEPT ![j] = e]
  /\ Goto(j, "except")

Staging(j) == fs[temp_dir[j]]
SetStaging(j, root) == fs' = Put(fs, temp_dir[j], root)

\* the directory self.temp_dir names is not on disk (another Job removed it)
StagingGone(j) == temp_dir[j] \notin DOMAIN fs

\* what open(..., 'w'), os.listdir and tar.add raise below a directory that is gone
NoSuchFile == Exc("FileNotFoundError", "No such file or directory", "")

(***************************************************************************)
(* main (main.py:169-199) up to the call of convert.                       *)
(***************************************************************************)
\* a faulty variant: the test for missing arguments placed before the test of the version flag
ArgsDecisionHelpFirst(e) ==
  IF ~e.hasInput \/ ~e.hasOutput THEN "help"
  ELSE IF e.version THEN "version"
  ELSE "convert"

\* what main does with the parsed arguments (main.py:182-191)
ArgsDecision(e) ==
  IF e.version THEN "version"
  ELSE IF ~e.hasInput \/ ~e.hasOutput THEN "help"
  ELSE "convert"

MainArgs(j) ==
  /\ pc[j] = "main"
  /\ IF ArgsDecision(env[j]) = "version"
     THEN /\ printed' = [printed EXCEPT ![j] = print(@, "version", <<>>)]
          /\ ret' = [ret EXCEPT ![j] = 0]
          /\ Goto(j, "exit")
     ELSE IF ArgsDecision(env[j]) = "help"
     THEN /\ printed' = [printed EXCEPT ![j] = print(@, "help", <<>>)]
          /\ ret' = [ret EXCEPT ![j] = 1]
          /\ Goto(j, "exit")
     ELSE /\ Goto(j, "convert")
          /\ UNCHANGED <<printed, ret>>
  /\ UNCHANGED <<env, temp_dir, current_step, exc, tool, fs, outfile>>

(***************************************************************************)
(* convert (main.py:154-167).                                              *)
(***************************************************************************)
\* a faulty variant: the output path opened for writing when convert starts
ConvertBeginOpensOutput(j) ==
  /\ pc[j] = "convert"
  /\ printed' = [printed EXCEPT ![j] = print(print(@, "banner", <<>>), "Starting conversion process:", <<>>)]
  /\ outfile' = [outfile EXCEPT ![j] = [state |-> "empty", members |-> NoEntries]]
  /\ Goto(j, "validate_deb")
  /\ UNCHANGED <<env, temp_dir, current_step, exc, ret, tool, fs>>

\* main.py:155-157
ConvertBegin(j) ==
  /\ pc[j] = "convert"
  /\ printed' = [printed EXCEPT ![j] = print(print(@, "banner", <<>>), "Starting conversion process:", <<>>)]
  /\ Goto(j, "validate_deb")
  /\ UNCHANGED <<env, temp_dir, current_step, exc, ret, tool, fs, outfile>>

\* the errors validate_deb raises, both of class ValueError (main.py:77, 79, 86)
InvalidInput(text) == Exc("ValueError", text, "")
InvalidPackage(diag) == Exc("ValueError", "Invalid or corrupted .deb package: ", diag)

\* a faulty variant: the check of the extension left out
PathCheckExistsOnly(e) ==
  IF ~e.exists THEN "Input file does not exist" ELSE ""

\* the checks of the path (main.py:76-79): the message of the error, "" when they pass
PathCheck(e) ==
  IF ~e.exists THEN "Input file does not exist"
  ELSE IF ~e.isDeb THEN "Input file must be a .deb package"
  ELSE ""

\* validate_deb, the checks of the path (main.py:76-79)
ValidatePath(j) ==
  /\ pc[j] = "validate_deb"
  /\ IF PathCheck(env[j]) # ""
     THEN Raise(j, InvalidInput(PathCheck(env[j])))
     ELSE Continue(j) /\ UNCHANGED exc
  /\ UNCHANGED <<env, temp_dir, current_step, ret, printed, tool, fs, outfile>>

\* validate_deb, dpkg-deb --info (main.py:81, 85-86)
ValidateInfo(j) ==
  /\ pc[j] = "dpkg_info"
  /\ tool' = [tool EXCEPT ![j] = Append(@, "--info")]
  /\ IF env[j].infoOk
     THEN Continue(j) /\ UNCHANGED exc
     ELSE Raise(j, InvalidPackage(env[j].stderr))
  /\ UNCHANGED <<env, temp_dir, current_step, ret, printed, fs, outfile>>

\* validate_deb, dpkg-deb --contents (main.py:82-86)
ValidateContents(j) ==
  /\ pc[j] = "dpkg_contents"
  /\ tool' = [tool EXCEPT ![j] = Append(@, "--contents")]
  /\ IF env[j].contentsOk
     THEN /\ printed' = [printed EXCEPT ![j] =
                           log(@, env[j].verbose, "success", "Package validation successful", <<>>)]
          /\ Continue(j)
          /\ UNCHANGED exc
     ELSE /\ Raise(j, InvalidPackage(env[j].stderr))
          /\ UNCHANGED printed
  /\ UNCHANGED <<env, temp_dir, current_step, ret, fs, outfile>>

\* extract_deb up to tempfile.mkdtemp() (main.py:89-91)
ExtractMkdtemp(j) ==
  /\ pc[j] = "extract_deb"
  /\ printed' = [printed EXCEPT ![j] =
                   progress(log(@, env[j].verbose, "process", "Extracting ...", <<>>),
                            "Extracting DEB package")]
  /\ current_step' = [current_step EXCEPT ![j] = @ + 1]
  /\ \E name \in TempNames \ DOMAIN fs :
       /\ temp_dir' = [temp_dir EXCEPT ![j] = name]
       /\ fs' = Put(fs, name, Dir(NoEntries))
  /\ Continue(j)
  /\ UNCHANGED <<env, exc, ret, tool, outfile>>

\* a faulty variant: the handler raises without cleanup
extract_failed_no_cleanup(disk, dir) == disk

\* the handler of extract_deb (main.py:94-95): cleanup, before the error is raised
extract_failed(disk, dir) == cleanup(disk, dir)

\* extract_deb, dpkg-deb -R (main.py:92-96); a failed run is followed by
\* cleanup.  dpkg-deb creates the target directory when it is missing.
ExtractRun(j) ==
  /\ pc[j] = "dpkg_extract"
  /\ tool' = [tool EXCEPT ![j] = Append(@, "-R")]
  /\ IF env[j].extractOk
     THEN /\ SetStaging(j, ExtractedTree(env[j].control, env[j].payload))
          /\ Continue(j)
          /\ UNCHANGED exc
     ELSE /\ fs' = extract_failed(fs, temp_dir[j])
          /\ Raise(j, Exc("RuntimeError", "Failed to extract .deb: ", env[j].stderr))
  /\ UNCHANGED <<env, temp_dir, current_step, ret, printed, outfile>>


(***************************************************************************)
(* create_apg (main.py:126-148).                                           *)
(***************************************************************************)
\* main.py:127-130; os.makedirs creates the missing parents of apg as well
CreateApgDirs(j) ==
  /\ pc[j] = "create_apg"
  /\ printed' = [printed EXCEPT ![j] = log(@, env[j].verbose, "process", "Creating APG structure...", <<>>)]
  /\ IF StagingGone(j)
     THEN SetStaging(j, makedirs(Dir(NoEntries))) /\ Continue(j) /\ UNCHANGED exc
     ELSE IF makedirs_raises(Staging(j))
     THEN Raise(j, Exc("FileExistsError", "File exists: apg", "")) /\ UNCHANGED fs
     ELSE SetStaging(j, makedirs(Staging(j))) /\ Continue(j) /\ UNCHANGED exc
  /\ UNCHANGED <<env, temp_dir, current_step, ret, tool, outfile>>

\* main.py:132-138
CreateApgMove(j) ==
  /\ pc[j] = "move"
  /\ IF StagingGone(j)
     THEN Raise(j, NoSuchFile) /\ UNCHANGED fs
     ELSE SetStaging(j, move_items(Staging(j))) /\ Continue(j) /\ UNCHANGED exc
  /\ UNCHANGED <<env, temp_dir, current_step, ret, printed, tool, outfile>>

\* main.py:140: open(..., 'w') creates the empty file
OpenMetadata(j) ==
  /\ pc[j] = "open_metadata"
  /\ IF StagingGone(j)
     THEN Raise(j, NoSuchFile) /\ UNCHANGED fs
     ELSE SetStaging(j, WriteApgFile(Staging(j), "metadata.json", "")) /\ Continue(j) /\ UNCHANGED exc
  /\ UNCHANGED <<env, temp_dir, current_step, ret, printed, tool, outfile>>

\* main.py:141: generate_metadata, then json.dump of its result.  When the
\* directory is gone no control file exists, and the dump goes to the open,
\* unlinked file.
GenerateMetadata(j) ==
  /\ pc[j] = "generate_metadata"
  /\ printed' = [printed EXCEPT ![j] = progress(@, "Generating metadata")]
  /\ current_step' = [current_step EXCEPT ![j] = @ + 1]
  /\ IF StagingGone(j)
     THEN Continue(j) /\ UNCHANGED <<exc, fs>>
     ELSE IF generate_metadata_raises(Staging(j))
     THEN Raise(j, Exc("UnicodeDecodeError", "codec can't decode byte", "")) /\ UNCHANGED fs
     ELSE /\ SetStaging(j, WriteApgFile(Staging(j), "metadata.json", generate_metadata(Staging(j))))
          /\ Continue(j)
          /\ UNCHANGED exc
  /\ UNCHANGED <<env, temp_dir, ret, tool, outfile>>

\* main.py:143
OpenChecksums(j) ==
  /\ pc[j] = "open_checksums"
  /\ IF StagingGone(j)
     THEN Raise(j, NoSuchFile) /\ UNCHANGED fs
     ELSE SetStaging(j, WriteApgFile(Staging(j), "checksums.json", "")) /\ Continue(j) /\ UNCHANGED exc
  /\ UNCHANGED <<env, temp_dir, current_step, ret, printed, tool, outfile>>

\* main.py:144: calculate_checksums(data_dest), then json.dump of its
\* result.  os.walk of a directory that is gone yields nothing.
CalculateChecksums(j) ==
  /\ pc[j] = "calculate_checksums"
  /\ printed' = [printed EXCEPT ![j] = progress(@, "Calculating checksums")]
  /\ current_step' = [current_step EXCEPT ![j] = @ + 1]
  /\ IF StagingGone(j)
     THEN Continue(j) /\ UNCHANGED <<exc, fs>>
     ELSE IF calculate_checksums_raises(DataDir(Staging(j)))
     THEN Raise(j, NoSuchFile) /\ UNCHANGED fs
     ELSE /\ SetStaging(j, WriteApgFile(Staging(j), "checksums.json",
                                        calculate_checksums(DataDir(Staging(j)))))
          /\ Continue(j)
          /\ UNCHANGED exc
  /\ UNCHANGED <<env, temp_dir, ret, tool, outfile>>

\* main.py:146-147: tarfile.open(output_file, 'w:xz') creates or truncates the file
TarOpen(j) ==
  /\ pc[j] = "tar_open"
  /\ printed' = [printed EXCEPT ![j] = progress(@, "Creating APG archive")]
  /\ current_step' = [current_step EXCEPT ![j] = @ + 1]
  /\ IF env[j].outWritable
     THEN /\ outfile' = [outfile EXCEPT ![j] = [state |-> "empty", members |-> NoEntries]]
          /\ Continue(j)
          /\ UNCHANGED exc
     ELSE Raise(j, Exc("PermissionError", "Permission denied", "")) /\ UNCHANGED outfile
  /\ UNCHANGED <<env, temp_dir, ret, tool, fs>>

\* main.py:148, and the close of the archive at the end of the with block
TarWrite(j) ==
  /\ pc[j] = "tar_add"
  /\ IF StagingGone(j)
     THEN Raise(j, NoSuchFile) /\ UNCHANGED outfile
     ELSE /\ outfile' = [outfile EXCEPT ![j] = [state |-> "archive", members |-> create_archive(Staging(j))]]
          /\ Continue(j)
          /\ UNCHANGED exc
  /\ UNCHANGED <<env, temp_dir, current_step, ret, printed, tool, fs>>

(***************************************************************************)
(* convert, after create_apg.                                              *)
(***************************************************************************)
\* main.py:161-162
ReportSize(j) ==
  /\ pc[j] = "getsize"
  /\ printed' = [printed EXCEPT ![j] = log(@, env[j].verbose, "success", "Successfully created", <<>>)]
  /\ Continue(j)
  /\ UNCHANGED <<env, temp_dir, current_step, exc, ret, tool, fs, outfile>>

\* main.py:163-165: the handler logs the error and raises it again
ConvertExcept(j) ==
  /\ pc[j] = "except"
  /\ printed' = [printed EXCEPT ![j] =
                   log(@, env[j].verbose, "error", "Conversion failed: ", <<exc[j].text, exc[j].diag>>)]
  /\ Goto(j, "finally")
  /\ UNCHANGED <<env, temp_dir, current_step, exc, ret, tool, fs, outfile>>

\* main.py:166-167: cleanup on every way out of the try statement
FinallyTarget(j) == IF exc[j] = NoExc THEN "return" ELSE "main_except"

ConvertFinally(j) ==
  /\ pc[j] = "finally"
  /\ fs' = cleanup(fs, temp_dir[j])
  /\ Goto(j, FinallyTarget(j))
  /\ UNCHANGED <<env, temp_dir, current_step, exc, ret, printed, tool, outfile>>

\* the user's interrupt (SIGINT) while a statement of the try block of convert
\* runs: KeyboardInterrupt is no Exception, so only the finally clause handles it
TryBlock ==
  {"validate_deb", "dpkg_info", "dpkg_contents", "extract_deb", "dpkg_extract",
   "create_apg", "move", "open_metadata", "generate_metadata", "open_checksums",
   "calculate_checksums", "tar_open", "tar_add", "getsize"}

\* a faulty variant: cleanup sits in the handler of Exception, which an interrupt passes by
InterruptSkipsCleanup(j) == "main_except"

InterruptTarget(j) == "finally"

Interrupt(j) ==
  /\ pc[j] \in TryBlock
  /\ exc' = [exc EXCEPT ![j] = Exc("KeyboardInterrupt", "", "")]
  /\ Goto(j, InterruptTarget(j))
  /\ UNCHANGED <<env, temp_dir, current_step, ret, printed, tool, fs, outfile>>

\* the same while print_banner runs, before the try block is entered
InterruptBanner(j) ==
  /\ pc[j] = "convert"
  /\ exc' = [exc EXCEPT ![j] = Exc("KeyboardInterrupt", "", "")]
  /\ Goto(j, "main_except")
  /\ UNCHANGED <<env, temp_dir, current_step, ret, printed, tool, fs, outfile>>

(***************************************************************************)
(* main, after convert (main.py:190-199).                                  *)
(***************************************************************************)
\* main.py:192
MainReturn(j) ==
  /\ pc[j] = "return"
  /\ ret' = [ret EXCEPT ![j] = 0]
  /\ Goto(j, "exit")
  /\ UNCHANGED <<env, temp_dir, current_step, exc, printed, tool, fs, outfile>>

\* main.py:193-199
MainExcept(j) ==
  /\ pc[j] = "main_except"
  /\ IF exc[j].type = "KeyboardInterrupt"
     THEN /\ printed' = [printed EXCEPT ![j] = print(print(@, "", <<>>), "Operation cancelled by user", <<>>)]
          /\ ret' = [ret EXCEPT ![j] = 130]
     ELSE /\ printed' = [printed EXCEPT ![j] = print(@, "Error: ", <<exc[j].text, exc[j].diag>>)]
          /\ ret' = [ret EXCEPT ![j] = 1]
  /\ Goto(j, "exit")
  /\ UNCHANGED <<env, temp_dir, current_step, exc, tool, fs, outfile>>

Next ==
  \E j \in Jobs :
    \/ MainArgs(j)
    \/ ConvertBegin(j)
    \/ ValidatePath(j)
    \/ ValidateInfo(j)
    \/ ValidateContents(j)
    \/ ExtractMkdtemp(j)
    \/ ExtractRun(j)
    \/ CreateApgDirs(j)
    \/ CreateApgMove(j)
    \/ OpenMetadata(j)
    \/ GenerateMetadata(j)
    \/ OpenChecksums(j)
    \/ CalculateChecksums(j)
    \/ TarOpen(j)
    \/ TarWrite(j)
    \/ ReportSize(j)
    \/ ConvertExcept(j)
    \/ ConvertFinally(j)
    \/ Interrupt(j)
    \/ InterruptBanner(j)
    \/ MainReturn(j)
    \/ MainExcept(j)

Spec == Init /\ [][Next]_vars

\* the environments of two Jobs that run side by side: a package that
\* converts, one that dpkg-deb -R fails on, and one with another payload
TwoJobEnvs ==
  {BaseEnv,
   [BaseEnv EXCEPT !.extractOk = FALSE, !.stderr = "dpkg-deb: error: unexpected end of file"],
   [BaseEnv EXCEPT !.payload = [n \in {"usr"} |-> Dir([c \in {"x"} |-> File(1)])]]}

\* two Jobs, each main on its own converter, both started, their statements
\* interleaved in any order; each has its own output path
InitTwo == \E e1, e2 \in TwoJobEnvs : InitWith([j \in Jobs |-> IF j = 1 THEN e1 ELSE e2], Jobs)

SpecTwo == InitTwo /\ [][Next]_vars


(***************************************************************************)
(* Properties.                                                             *)
(***************************************************************************)
ConvertCalled(j) == ArgsDecision(env[j]) = "convert" /\ pc[j] \notin {"off", "main"}

\* convert has returned or raised
ConvertLeft(j) == ConvertCalled(j) /\ pc[j] \in {"return", "main_except", "exit"}

Interrupted(j) == exc[j].type = "KeyboardInterrupt"

\* a stage raised an error of class Exception
StageFailed(j) == exc[j] # NoExc /\ ~Interrupted(j)

\* the tool accepts the input file and unpacks it
ValidPackage(e) == e.exists /\ e.isDeb /\ e.infoOk /\ e.contentsOk /\ e.extractOk

\* C1: once convert has returned or raised (after a failure or an interrupt
\* in any stage, or after success), the staging directory this call
\* allocated is no longer on disk.
C1_StagingRemoved ==
  \A j \in Jobs : ConvertLeft(j) => temp_dir[j] \notin DOMAIN fs

\* an interrupt after extraction: the directory was allocated and filled, and convert has raised
C1_Witness ==
  \E j \in Jobs :
    /\ ConvertLeft(j)
    /\ Interrupted(j)
    /\ temp_dir[j] # "None"
    /\ Len(tool[j]) = 3

RootEntries(members) == {p \in DOMAIN members : Len(p) = 1}
DataPaths(members) == {Tail(p) : p \in {q \in DOMAIN members : Len(q) > 1 /\ q[1] = "data"}}

ArchiveHoldsPayload(members, payload) ==
  /\ RootEntries(members) = {<<"data">>, <<"metadata.json">>, <<"checksums.json">>}
  /\ members[<<"data">>].type = "dir"
  /\ DataPaths(members) = TreePaths(Dir(payload)) \ {<<>>}
  /\ \A p \in DataPaths(members) : members[<<"data">> \o p] = TarMember(NodeAt(Dir(payload), p))

\* C2: for every valid input package (a control subtree plus any set of
\* top-level payload entries) convert succeeds, and the root of the archive
\* holds exactly data/ (the payload tree, paths and contents unchanged),
\* metadata.json and checksums.json, named relative to the archive root.
C2_ArchiveLayout ==
  \A j \in Jobs :
    (/\ pc[j] = "exit"
     /\ ConvertCalled(j)
     /\ ValidPackage(env[j])
     /\ env[j].outWritable
     /\ ~Interrupted(j))
    => /\ ret[j] = 0
       /\ outfile[j].state = "archive"
       /\ ArchiveHoldsPayload(outfile[j].members, env[j].payload)

\* the checksum map has been computed and written, the staging tree is still there
ChecksumsWritten(j) == pc[j] \in {"tar_open", "tar_add", "getsize"}
Checksums(j) == ApgRoot(Staging(j)).children["checksums.json"].content

RegularFiles(node) == {p \in TreePaths(node) : NodeAt(node, p).kind = "file"}

\* what the directory walk lists as files: everything that is neither a
\* directory nor a symlink to one, in data and its real subdirectories
ListedAsFiles(node) ==
  {p \in TreePaths(node) \ {<<>>} : NodeAt(node, p).kind \in {"file", "linkfile", "linkbroken"}}

\* C3 as stated: the keys of the checksum map are exactly the data-relative
\* paths of the regular files under data.
C3_KeysAreRegularFiles ==
  \A j \in Jobs :
    ChecksumsWritten(j) => DOMAIN Checksums(j) = RegularFiles(DataDir(Staging(j)))

\* C3 as amended: the keys of the checksum map are exactly the data-relative
\* paths of the entries the walk lists as files, regular files and symlinks
\* that do not resolve to a directory, at any depth.
C3_KeysAreListedFiles ==
  \A j \in Jobs :
    ChecksumsWritten(j) => DOMAIN Checksums(j) = ListedAsFiles(DataDir(Staging(j)))

\* a map with a key for a symlinked file two levels down
C3_Witness ==
  \E j \in Jobs :
    /\ ChecksumsWritten(j)
    /\ \E p \in DOMAIN Checksums(j) :
         Len(p) = 2 /\ NodeAt(DataDir(Staging(j)), p).kind = "linkfile"

\* C4: for every regular file under data/ in the archive, the value stored
\* in checksums.json under the file's data-relative path is the SHA-256 of
\* the bytes packed for that file.
C4_ChecksumsMatchArchive ==
  \A j \in Jobs :
    outfile[j].state = "archive" =>
      LET m == outfile[j].members
          sums == m[<<"checksums.json">>].data
      IN  \A p \in DOMAIN m :
            (Len(p) > 1 /\ p[1] = "data" /\ m[p].type = "file") =>
              /\ Tail(p) \in DOMAIN sums
              /\ sums[Tail(p)] = Sha256(m[p].data)

\* an archive with a non-empty regular file two levels below data/
C4_Witness ==
  \E j \in Jobs :
    /\ outfile[j].state = "archive"
    /\ \E p \in DOMAIN outfile[j].members :
         Len(p) = 3 /\ outfile[j].members[p].type = "file" /\ outfile[j].members[p].data = 1


\* the metadata record has been computed and written, the staging tree is still there
MetadataWritten(j) ==
  pc[j] \in {"open_checksums", "calculate_checksums", "tar_open", "tar_add", "getsize"}
Metadata(j) == ApgRoot(Staging(j)).children["metadata.json"].content

\* C5: the metadata record holds the four stamp fields, and for each of the
\* seven control-file names a key of that name exactly when the package's
\* control subtree holds a file of that name, its value that file's content
\* verbatim; no control-derived key replaces a stamp field.
C5_MetadataRecord ==
  \A j \in Jobs :
    MetadataWritten(j) =>
      LET m == Metadata(j)
      IN  /\ StampFields \subseteq DOMAIN m
          /\ \A f \in StampFields : m[f] = Stamp[f]
          /\ \A n \in ControlNames :
               /\ n \in DOMAIN m <=> n \in DOMAIN env[j].control
               /\ n \in DOMAIN m => m[n] = env[j].control[n]

\* C6: when the input path does not exist or does not end in .deb,
\* validate_deb raises the invalid-input error, dpkg-deb is never invoked and
\* self.temp_dir stays unset, no temporary directory being created, through
\* the whole call of convert and its cleanup.
C6_InvalidInput ==
  \A j \in Jobs :
    (ConvertCalled(j) /\ (~env[j].exists \/ ~env[j].isDeb)) =>
      /\ tool[j] = <<>>
      /\ temp_dir[j] = "None"
      /\ \A d \in DOMAIN fs : \E k \in Jobs \ {j} : temp_dir[k] = d
      /\ (pc[j] \notin {"convert", "validate_deb"} /\ ~Interrupted(j)) =>
           /\ exc[j].type = "ValueError"
           /\ exc[j].text = (IF ~env[j].exists THEN "Input file does not exist"
                             ELSE "Input file must be a .deb package")
           /\ exc[j].diag = ""

\* an existing file with another extension, refused, the call over
C6_Witness ==
  \E j \in Jobs :
    /\ pc[j] = "exit"
    /\ ConvertCalled(j)
    /\ env[j].exists /\ ~env[j].isDeb
    /\ exc[j].text = "Input file must be a .deb package"

\* C7: when the path exists and ends in .deb but dpkg-deb --info or
\* --contents fails, validation raises the invalid-package error, of a kind
\* distinct from the invalid-input error, carrying the tool's diagnostic
\* output, and extraction is never attempted.
C7_InvalidPackage ==
  \A j \in Jobs :
    (/\ ConvertCalled(j)
     /\ env[j].exists /\ env[j].isDeb
     /\ ~env[j].infoOk \/ ~env[j].contentsOk
     /\ pc[j] \in {"except", "finally", "main_except", "exit"}
     /\ ~Interrupted(j))
    => /\ exc[j].text = "Invalid or corrupted .deb package: "
       /\ exc[j].diag = env[j].stderr
       /\ exc[j].type # InvalidInput("").type
       /\ \A i \in DOMAIN tool[j] : tool[j][i] # "-R"
       /\ temp_dir[j] = "None"

(***************************************************************************)
(* The pipeline's stages, read off the statement a Job is at.              *)
(***************************************************************************)
Stage(j) ==
  CASE pc[j] \in {"off", "main", "convert"} -> "Idle"
    [] pc[j] \in {"validate_deb", "dpkg_info", "dpkg_contents"} -> "Validating"
    [] pc[j] \in {"extract_deb", "dpkg_extract"} -> "Extracting"
    [] pc[j] \in {"create_apg", "move"} -> "Restructuring"
    [] pc[j] \in {"open_metadata", "generate_metadata", "open_checksums", "calculate_checksums"}
         -> "Synthesizing"
    [] pc[j] \in {"tar_open", "tar_add", "getsize"} -> "Packaging"
    [] pc[j] \in {"except", "main_except"} -> "Failed"
    [] pc[j] \in {"finally", "return", "exit"} ->
         IF exc[j] # NoExc THEN "Failed"
         ELSE IF ConvertCalled(j) THEN "Done"
         ELSE "Idle"

StageOrder == <<"Idle", "Validating", "Extracting", "Restructuring", "Synthesizing", "Packaging", "Done">>

Follows(a, b) == \E i \in 1..(Len(StageOrder) - 1) : StageOrder[i] = a /\ StageOrder[i + 1] = b

\* C8: the stages run in the order Validating, Extracting, Restructuring,
\* Synthesizing, Packaging, a stage starting only when the one before it
\* completed without error; a failing stage leads to Failed and to no later
\* stage; in Done and in Failed nothing but cleanup and main's return
\* happens, and a Job that ended in Failed has had its cleanup.
C8_StageOrder ==
  /\ [](\A j \in Jobs : (pc[j] = "exit" /\ Stage(j) = "Failed") => temp_dir[j] \notin DOMAIN fs)
  /\ [][\A j \in Jobs :
          /\ Stage(j)' # Stage(j) =>
               \/ Follows(Stage(j), Stage(j)') /\ exc[j] = NoExc /\ exc'[j] = NoExc
               \/ Stage(j)' = "Failed" /\ Stage(j) # "Done" /\ exc'[j] # NoExc
          /\ Stage(j) \in {"Done", "Failed"} =>
               /\ Stage(j)' = Stage(j)
               /\ tool'[j] = tool[j]
               /\ outfile'[j] = outfile[j]
               /\ current_step'[j] = current_step[j]
               /\ temp_dir'[j] = temp_dir[j]
               /\ fs' = fs \/ fs' = cleanup(fs, temp_dir[j])]_vars

\* the checksum pass failed: Failed was entered from Synthesizing, and the Job is over
C8_Witness ==
  \E j \in Jobs :
    /\ pc[j] = "exit"
    /\ Stage(j) = "Failed"
    /\ exc[j].type = "FileNotFoundError"
    /\ current_step[j] = 3

BannerPrinted(j) == \E i \in DOMAIN printed[j] : printed[j][i].text = "banner"

\* C9: main returns 0 exactly when the version flag is given or the
\* conversion succeeds, 1 when input or output is missing without the
\* version flag or when a stage raised an error, 130 when the user
\* interrupted the conversion; with the version flag convert is never called.
C9_ExitCodes ==
  \A j \in Jobs :
    pc[j] = "exit" =>
      /\ ret[j] \in {0, 1, 130}
      /\ ret[j] = 0 <=>
           \/ env[j].version
           \/ BannerPrinted(j) /\ exc[j] = NoExc /\ outfile[j].state = "archive"
      /\ (~env[j].version /\ (~env[j].hasInput \/ ~env[j].hasOutput)) => ret[j] = 1
      /\ StageFailed(j) => ret[j] = 1
      /\ Interrupted(j) => ret[j] = 130
      /\ env[j].version =>
           ~BannerPrinted(j) /\ tool[j] = <<>> /\ temp_dir[j] = "None" /\ outfile[j].state # "archive"

\* the version flag given together with input and output
C9_Witness ==
  \E j \in Jobs :
    /\ pc[j] = "exit"
    /\ env[j].version /\ env[j].hasInput /\ env[j].hasOutput
    /\ ret[j] = 0

\* the messages that report an error: log at level error (main.py:164) and
\* main's own report (main.py:198)
ErrorReports(out) ==
  {i \in DOMAIN out :
     \/ out[i].via = "log" /\ out[i].level = "error"
     \/ out[i].via = "print" /\ out[i].text = "Error: "}

\* C10: when a stage fails, the error is reported once, at the top level:
\* one error message is printed, and main returns a non-zero result.
C10_ReportedOnce ==
  \A j \in Jobs :
    (pc[j] = "exit" /\ StageFailed(j)) =>
      /\ Cardinality(ErrorReports(printed[j])) = 1
      /\ ret[j] # 0


\* the move loop of create_apg has completed and cleanup has not yet run
Restructured(j) ==
  \/ pc[j] \in {"open_metadata", "generate_metadata", "open_checksums", "calculate_checksums",
                "tar_open", "tar_add", "getsize"}
  \/ /\ pc[j] \in {"except", "finally"}
     /\ exc[j].type \in {"UnicodeDecodeError", "FileNotFoundError", "PermissionError"}

ControlDir(e) == Dir([n \in DOMAIN e.control |-> File(e.control[n])])

\* C11 as stated: from the completion of restructuring until cleanup, the
\* control subtree DEBIAN no longer exists as a directory of the staging tree.
C11_ControlSubtreeGone ==
  \A j \in Jobs :
    Restructured(j) => "DEBIAN" \notin DOMAIN Staging(j).children

\* C11 as amended: from the completion of restructuring until cleanup, the
\* control subtree DEBIAN is still a directory of the staging root, with the
\* files the extraction put there, and it lies outside the archive root apg
\* and its data directory.
C11_ControlSubtreeKept ==
  \A j \in Jobs :
    Restructured(j) =>
      /\ temp_dir[j] \in DOMAIN fs
      /\ "DEBIAN" \in DOMAIN Staging(j).children
      /\ Staging(j).children["DEBIAN"] = ControlDir(env[j])
      /\ "DEBIAN" \notin DOMAIN ApgRoot(Staging(j)).children
      /\ "DEBIAN" \notin DOMAIN DataDir(Staging(j)).children

\* the archive is written, the staging tree still holds a control subtree of two files or more
C11_Witness ==
  \E j \in Jobs :
    /\ pc[j] = "getsize"
    /\ Cardinality(DOMAIN Staging(j).children["DEBIAN"].children) >= 2


\* C13: whatever top-level entries the extraction leaves in the staging
\* root, the restructuring step succeeds and moves every entry other than
\* DEBIAN and apg into apg/data under its name: afterwards the staging root
\* holds only DEBIAN and apg, and data holds exactly the payload's entries.
C13_EveryEntryMoved ==
  \A j \in Jobs :
    (ConvertCalled(j) /\ ValidPackage(env[j])) =>
      /\ exc[j].type # "FileExistsError"
      /\ Restructured(j) =>
           /\ DOMAIN Staging(j).children = {"DEBIAN", "apg"}
           /\ DataDir(Staging(j)).children = env[j].payload

\* the symlinks the directory walk lists as files, resolving or not
SymlinkedFiles(node) ==
  {p \in TreePaths(node) \ {<<>>} : NodeAt(node, p).kind \in {"linkfile", "linkbroken"}}

\* C15: for every symlinked file under data, its target resolving or not,
\* the checksum pass completes and the map holds one entry keyed by the
\* symlink's own data-relative path.
C15_SymlinksChecksummed ==
  \A j \in Jobs :
    /\ exc[j].type # "FileNotFoundError"
    /\ ChecksumsWritten(j) => SymlinkedFiles(DataDir(Staging(j))) \subseteq DOMAIN Checksums(j)


InitialOut(e) == IF e.outBefore = "old" THEN OldFile ELSE NoFile

\* C16: when convert fails in validation, extraction, restructuring,
\* metadata generation or checksum computation, the file at the output path
\* is as it was; the output path is first opened in the packaging step, with
\* both record files in place.
C16_OutputUntouched ==
  /\ [](\A j \in Jobs :
          (\/ Stage(j) \in {"Idle", "Validating", "Extracting", "Restructuring", "Synthesizing"}
           \/ exc[j].type \in {"ValueError", "RuntimeError", "FileExistsError",
                               "UnicodeDecodeError", "FileNotFoundError"})
          => outfile[j] = InitialOut(env[j]))
  /\ [][\A j \in Jobs :
          outfile'[j] # outfile[j] =>
            /\ pc[j] \in {"tar_open", "tar_add"}
            /\ {"metadata.json", "checksums.json"} \subseteq DOMAIN ApgRoot(Staging(j)).children
            /\ pc[j] = "tar_open" <=> outfile[j] = InitialOut(env[j])]_vars

\* the checksum pass failed over an output file that existed before: it is as it was
C16_Witness ==
  \E j \in Jobs :
    /\ pc[j] = "exit"
    /\ exc[j].type = "FileNotFoundError"
    /\ env[j].outBefore = "old"
    /\ outfile[j] = OldFile

ProgressLines(out) == {i \in DOMAIN out : out[i].via = "progress"}

\* C17: on a fresh converter, during one call of convert, current_step never
\* exceeds total_steps: update_progress runs at most once for each of the
\* four steps, the percentage is at most 100 and is 100 only once the
\* archive-creation step has started.
C17_ProgressBounded ==
  \A j \in Jobs :
    /\ current_step[j] <= total_steps
    /\ Percentage(current_step[j]) <= 100
    /\ Cardinality(ProgressLines(printed[j])) = current_step[j]
    /\ \A a, b \in ProgressLines(printed[j]) : printed[j][a].text = printed[j][b].text => a = b
    /\ Percentage(current_step[j]) = 100 =>
         \E i \in ProgressLines(printed[j]) : printed[j][i].text = "Creating APG archive"

\* the archive-creation step has started: four steps of four
C17_Witness ==
  \E j \in Jobs :
    /\ pc[j] = "tar_add"
    /\ current_step[j] = total_steps
    /\ Percentage(current_step[j]) = 100


\* Job j is between its mkdtemp and the end of its finally clause and has
\* not removed its directory itself
OwnsStaging(j) ==
  /\ pc[j] \in (TryBlock \ {"validate_deb", "dpkg_info", "dpkg_contents", "extract_deb"})
                 \cup {"except", "finally"}
  /\ exc[j].type # "RuntimeError"

\* the Job run alone: the staging tree after each step of create_apg
SoloExtracted(e) == ExtractedTree(e.control, e.payload)
SoloMoved(e) == move_items(makedirs(SoloExtracted(e)))
SoloWithMetadata(e) == WriteApgFile(SoloMoved(e), "metadata.json", generate_metadata(SoloMoved(e)))
SoloWithChecksums(e) ==
  WriteApgFile(SoloWithMetadata(e), "checksums.json", calculate_checksums(DataDir(SoloWithMetadata(e))))

\* the Job run alone and not interrupted: a stage before the archive is opened fails
SoloFailsEarly(e) ==
  \/ PathCheck(e) # ""
  \/ ~e.infoOk \/ ~e.contentsOk \/ ~e.extractOk
  \/ makedirs_raises(SoloExtracted(e))
  \/ generate_metadata_raises(SoloMoved(e))
  \/ calculate_checksums_raises(DataDir(SoloWithMetadata(e)))

\* its exit code
SoloRet(e) ==
  IF ArgsDecision(e) = "version" THEN 0
  ELSE IF ArgsDecision(e) = "help" THEN 1
  ELSE IF SoloFailsEarly(e) \/ ~e.outWritable THEN 1
  ELSE 0

\* the file it leaves at its output path
SoloOut(e) ==
  IF ArgsDecision(e) # "convert" \/ SoloFailsEarly(e) \/ ~e.outWritable THEN InitialOut(e)
  ELSE [state |-> "archive", members |-> create_archive(SoloWithChecksums(e))]

\* C12: for two Jobs run concurrently, in any interleaving of their
\* statements: the staging directories the two hold are distinct; no step of
\* one Job removes or changes the staging directory of the other; a Job that
\* was not interrupted ends with the exit code and the output file it has
\* when run alone.
C12_JobsIsolated ==
  /\ [](\A j, k \in Jobs :
          (j # k /\ OwnsStaging(j) /\ pc[k] \notin {"off", "main", "exit"} /\ temp_dir[k] # "None")
          => temp_dir[j] # temp_dir[k])
  /\ [][\A j, k \in Jobs :
          (j # k /\ pc'[j] # pc[j] /\ OwnsStaging(k) /\ temp_dir[k] \in DOMAIN fs)
          => /\ temp_dir[k] \in DOMAIN fs'
             /\ fs'[temp_dir[k]] = fs[temp_dir[k]]]_vars
  /\ [](\A j \in Jobs :
          (pc[j] = "exit" /\ ~Interrupted(j))
          => /\ ret[j] = SoloRet(env[j])
             /\ outfile[j] = SoloOut(env[j]))

====
